---- MODULE Spec2Model ----
(***************************************************************************)
(* Model of invokeai/app/invocations/metadata.py: the metadata nodes.      *)
(*                                                                         *)
(*  - MetadataItemInvocation, MetadataInvocation and                       *)
(*    MergeMetadataDictInvocation (the free-form label -> value path),     *)
(*    checked under Spec;                                                  *)
(*  - MetadataAccumulatorInvocation and CoreMetadata (the fixed-schema     *)
(*    record and its null-excluding dict()), checked under SpecCore.       *)
(*                                                                         *)
(* Python values are tagged records, [kind |-> ..., ...], so that values   *)
(* of different Python types are different values of the model.  A Python  *)
(* dict is a function whose domain is its key set.                         *)
(***************************************************************************)
EXTENDS Integers, Sequences, FiniteSets, TLC

VARIABLES
    items,          \* the MetadataItems produced so far, in collection order
    self_items,     \* MetadataInvocation.items of the last invocation
    metadata_dict,  \* the MetadataDict the last MetadataInvocation returned
    collection,     \* MergeMetadataDictInvocation.collection
    merge_out,      \* the MetadataDict MergeMetadataDictInvocation returned
    pc,             \* position of the free-form pipeline
    self,           \* the fields of the MetadataAccumulatorInvocation
    output,         \* <<>> or <<MetadataAccumulatorOutput>>
    error,          \* names of the fields the raised ValidationError lists
    document,       \* CoreMetadata.dict() of the emitted record
    reread,         \* CoreMetadata(**document)
    cpc             \* position of the whole-record pipeline

extVars == <<items, self_items, metadata_dict, collection, merge_out, pc>>
coreVars == <<self, output, error, document, reread, cpc>>
vars == <<items, self_items, metadata_dict, collection, merge_out, pc,
          self, output, error, document, reread, cpc>>

---------------------------------------------------------------------------
(* Bounds of the model *)

MaxItems == 3
MaxMaps == 3

---------------------------------------------------------------------------
(* Python values *)

None == [kind |-> "none"]
IntV(i) == [kind |-> "int", val |-> i]
StrV(s) == [kind |-> "str", val |-> s]
\* a float, held in tenths: FloatV(75) is 7.5
FloatV(t) == [kind |-> "float", val |-> t]
ListV(s) == [kind |-> "list", val |-> s]

EmptyDict == [k \in {} |-> None]

\* d[k] = v
DictSetItem(d, k, v) ==
    [x \in (DOMAIN d) \cup {k} |-> IF x = k THEN v ELSE d[x]]

\* d.setdefault(k, v): what a first-write-wins fold would do
DictSetDefault(d, k, v) ==
    [x \in (DOMAIN d) \cup {k} |-> IF x \in DOMAIN d THEN d[x] ELSE v]

\* d.update(e) with the earlier value kept on a shared key
DictUpdateKeepFirst(d, e) ==
    [x \in (DOMAIN d) \cup (DOMAIN e) |-> IF x \in DOMAIN d THEN d[x] ELSE e[x]]

\* data.update(item.data) with the None values of item.data left out
DictUpdateSkipNone(d, e) ==
    LET keep == {x \in DOMAIN e : e[x] # None}
    IN  [x \in (DOMAIN d) \cup keep |-> IF x \in keep THEN e[x] ELSE d[x]]

\* data.update(item.data)
DictUpdate(d, e) ==
    [x \in (DOMAIN d) \cup (DOMAIN e) |-> IF x \in DOMAIN e THEN e[x] ELSE d[x]]

---------------------------------------------------------------------------
(* MetadataItem, MetadataDict *)

Labels == {"x", "y"}
AnyValues == {None, IntV(1), IntV(2)}

MetadataItem(label, value) == [label |-> label, value |-> value]
MetadataDict(data) == [data |-> data]

AllData == UNION {[S -> AnyValues] : S \in SUBSET Labels}
AllCollections == UNION {[1..n -> {MetadataDict(d) : d \in AllData}] : n \in 0..MaxMaps}

\* self.items is Union[list[MetadataItem], MetadataItem]
NoItems == [kind |-> "unset"]
OneItem(item) == [kind |-> "MetadataItem", item |-> item]
ManyItems(seq) == [kind |-> "list", val |-> seq]

\* {item.label: item.value for item in self.items}, first label kept
RECURSIVE DictCompKeepFirst(_)
DictCompKeepFirst(seq) ==
    IF seq = <<>> THEN EmptyDict
    ELSE LET n == Len(seq)
         IN  DictSetDefault(DictCompKeepFirst(SubSeq(seq, 1, n - 1)),
                            seq[n].label, seq[n].value)

\* {item.label: item.value for item in self.items}
RECURSIVE DictComp(_)
DictComp(seq) ==
    IF seq = <<>> THEN EmptyDict
    ELSE LET n == Len(seq)
         IN  DictSetItem(DictComp(SubSeq(seq, 1, n - 1)),
                         seq[n].label, seq[n].value)

\* {self.items.label: self.items}: the item stored in place of its value
SingleItemDataWholeItem(item) == DictSetItem(EmptyDict, item.label, item)

\* {self.items.label: self.items.value}
SingleItemData(item) == DictSetItem(EmptyDict, item.label, item.value)

\* MetadataInvocation.invoke: the returned metadata_dict
MetadataInvocationInvoke(its) ==
    IF its.kind = "MetadataItem"
    THEN MetadataDict(SingleItemData(its.item))
    ELSE MetadataDict(DictComp(its.val))

\* the loop of MergeMetadataDictInvocation.invoke over self.collection
RECURSIVE MergeLoop(_)
MergeLoop(coll) ==
    IF coll = <<>> THEN EmptyDict
    ELSE LET n == Len(coll)
         IN  DictUpdate(MergeLoop(SubSeq(coll, 1, n - 1)), coll[n].data)

\* MergeMetadataDictInvocation.invoke: the returned metadata_dict
MergeMetadataDictInvocationInvoke(coll) == MetadataDict(MergeLoop(coll))

---------------------------------------------------------------------------
(* CoreMetadata and LoRAMetadataField *)

\* from ...version import __version__
Version == StrV("__version__")

\* the fields of CoreMetadata declared without Optional and without a default
CoreRequired ==
    {"generation_mode", "positive_prompt", "negative_prompt", "width", "height",
     "seed", "rand_device", "cfg_scale", "steps", "scheduler", "model",
     "controlnets", "loras"}

\* the Optional[...] fields of CoreMetadata
CoreOptional ==
    {"created_by", "clip_skip", "vae", "strength", "init_image",
     "positive_style_prompt", "negative_style_prompt", "refiner_model",
     "refiner_cfg_scale", "refiner_steps", "refiner_scheduler",
     "refiner_positive_aesthetic_score", "refiner_negative_aesthetic_score",
     "refiner_start"}

RefinerFields ==
    {"refiner_model", "refiner_cfg_scale", "refiner_steps", "refiner_scheduler",
     "refiner_positive_aesthetic_score", "refiner_negative_aesthetic_score",
     "refiner_start"}

CoreFields == {"app_version"} \cup CoreRequired \cup CoreOptional

\* the annotation of each field of CoreMetadata (Optional[T] is T here)
CoreMetadataType(f) ==
    CASE f \in {"app_version", "generation_mode", "created_by", "positive_prompt",
                "negative_prompt", "rand_device", "scheduler", "init_image",
                "positive_style_prompt", "negative_style_prompt",
                "refiner_scheduler"} -> "str"
      [] f \in {"width", "height", "seed", "steps", "clip_skip",
                "refiner_steps"} -> "int"
      [] f \in {"cfg_scale", "strength", "refiner_cfg_scale",
                "refiner_positive_aesthetic_score",
                "refiner_negative_aesthetic_score", "refiner_start"} -> "float"
      [] f \in {"model", "refiner_model"} -> "MainModelField"
      [] f = "vae" -> "VAEModelField"
      [] f = "controlnets" -> "list[ControlField]"
      [] f = "loras" -> "list[LoRAMetadataField]"

\* CoreMetadata with created_by defaulting to an empty string
CoreMetadataDefaultsCreatedBy ==
    [f \in {"app_version"} \cup CoreOptional |->
        IF f = "app_version" THEN Version
        ELSE IF f = "created_by" THEN StrV("") ELSE None]

\* CoreMetadata with clip_skip defaulting to 0
CoreMetadataDefaultsClipSkip ==
    [f \in {"app_version"} \cup CoreOptional |->
        IF f = "app_version" THEN Version
        ELSE IF f = "clip_skip" THEN IntV(0) ELSE None]

\* the defaults of CoreMetadata: __version__ for app_version, None for every
\* Optional field (created_by has no default= and gets None as an Optional)
CoreMetadataDefaults ==
    [f \in {"app_version"} \cup CoreOptional |->
        IF f = "app_version" THEN Version ELSE None]

\* References to models and control adapters are values of types defined
\* elsewhere; they are carried as they are.
MainModelField(name) == [kind |-> "MainModelField", val |-> name]
VAEModelField(name) == [kind |-> "VAEModelField", val |-> name]
LoRAModelField(name) == [kind |-> "LoRAModelField", val |-> name]
ControlField(name) == [kind |-> "ControlField", val |-> name]

LoRAMetadataField(lora, weight) ==
    [kind |-> "LoRAMetadataField", lora |-> lora, weight |-> weight]

DictV(d) == [kind |-> "dict", data |-> d]

\* whether e is accepted as a LoRAMetadataField: an instance, or a dict of it
IsLoRAMetadata(e) ==
    \/ e.kind = "LoRAMetadataField"
    \/ /\ e.kind = "dict"
       /\ {"lora", "weight"} \subseteq DOMAIN e.data
       /\ e.data["lora"].kind = "LoRAModelField"
       /\ e.data["weight"].kind = "float"

ParseLoRAMetadata(e) ==
    IF e.kind = "dict"
    THEN LoRAMetadataField(e.data["lora"], e.data["weight"])
    ELSE e

\* the validation of a value other than None against a field's annotation
ValidateValue(type, v) ==
    CASE type \in {"str", "int", "float", "MainModelField", "VAEModelField"} ->
             [ok |-> v.kind = type, value |-> v]
      [] type = "list[ControlField]" ->
             IF v.kind = "list"
             THEN [ok |-> \A i \in 1..Len(v.val) : v.val[i].kind = "ControlField",
                   value |-> v]
             ELSE [ok |-> FALSE, value |-> v]
      [] type = "list[LoRAMetadataField]" ->
             IF v.kind = "list" /\ \A i \in 1..Len(v.val) : IsLoRAMetadata(v.val[i])
             THEN [ok |-> TRUE,
                   value |-> ListV([i \in 1..Len(v.val) |->
                                        ParseLoRAMetadata(v.val[i])])]
             ELSE [ok |-> FALSE, value |-> v]

\* one field of CoreMetadata(**kwargs): the keyword if given, else the default,
\* else the field is missing
CoreMetadataField(kwargs, f) ==
    IF f \in DOMAIN kwargs
    THEN IF kwargs[f] = None
         THEN [ok |-> f \in CoreOptional, value |-> None]
         ELSE ValidateValue(CoreMetadataType(f), kwargs[f])
    ELSE IF f \in DOMAIN CoreMetadataDefaults
         THEN [ok |-> TRUE, value |-> CoreMetadataDefaults[f]]
         ELSE [ok |-> FALSE, value |-> None]

\* CoreMetadata(**kwargs) keeping the keywords that are no field of it
CoreMetadataInitAllowExtra(kwargs) ==
    LET errs == {f \in CoreFields : ~CoreMetadataField(kwargs, f).ok}
    IN  IF errs = {}
        THEN [ok |-> TRUE,
              value |-> [f \in CoreFields \cup DOMAIN kwargs |->
                            IF f \in CoreFields
                            THEN CoreMetadataField(kwargs, f).value
                            ELSE kwargs[f]],
              errors |-> {}]
        ELSE [ok |-> FALSE, value |-> EmptyDict, errors |-> errs]

\* CoreMetadata(**kwargs): the record, or the ValidationError with the names
\* of the fields it lists; keywords that are no field of it are ignored
CoreMetadataInit(kwargs) ==
    LET errs == {f \in CoreFields : ~CoreMetadataField(kwargs, f).ok}
    IN  IF errs = {}
        THEN [ok |-> TRUE,
              value |-> [f \in CoreFields |-> CoreMetadataField(kwargs, f).value],
              errors |-> {}]
        ELSE [ok |-> FALSE, value |-> EmptyDict, errors |-> errs]

\* BaseModelExcludeNull.dict() of a nested value
DumpExcludeNull(v) ==
    IF v.kind = "LoRAMetadataField"
    THEN DictV([k \in {x \in {"lora", "weight"} : v[x] # None} |-> v[k]])
    ELSE IF v.kind = "list"
         THEN ListV([i \in 1..Len(v.val) |->
                        IF v.val[i].kind = "LoRAMetadataField"
                        THEN DictV([k \in {x \in {"lora", "weight"} :
                                              v.val[i][x] # None} |-> v.val[i][k]])
                        ELSE v.val[i]])
         ELSE v

\* BaseModelExcludeNull.dict() of a record: the fields that are not None
ExcludeNullDict(fields) ==
    [f \in {g \in DOMAIN fields : fields[g] # None} |-> DumpExcludeNull(fields[f])]

---------------------------------------------------------------------------
(* MetadataAccumulatorInvocation *)

\* the fields MetadataAccumulatorInvocation declares
AccumulatorRequired == CoreRequired
AccumulatorOptional == CoreOptional \ {"created_by"}
AccumulatorFields == AccumulatorRequired \cup AccumulatorOptional

\* the fields every invocation has besides its own
BaseInvocationFields == {"id", "is_intermediate", "type"}

BaseInvocationValue(f) ==
    CASE f = "id" -> StrV("node-1")
      [] f = "is_intermediate" -> [kind |-> "bool", val |-> FALSE]
      [] f = "type" -> StrV("metadata_accumulator")

\* BaseModel.dict() of a nested value: models become dicts, None is kept
ModelDump(v) ==
    IF v.kind = "LoRAMetadataField"
    THEN DictV([k \in {"lora", "weight"} |-> v[k]])
    ELSE IF v.kind = "list"
         THEN ListV([i \in 1..Len(v.val) |->
                        IF v.val[i].kind = "LoRAMetadataField"
                        THEN DictV([k \in {"lora", "weight"} |-> v.val[i][k]])
                        ELSE v.val[i]])
         ELSE v

\* self.dict() with the refiner_* values passed only under a refiner_model
SelfDictRefinerGated(s) ==
    [f \in DOMAIN s |->
        IF f \in RefinerFields /\ s["refiner_model"] = None
        THEN None ELSE ModelDump(s[f])]

\* self.dict()
SelfDict(s) == [f \in DOMAIN s |-> ModelDump(s[f])]

\* invoke, emitting the fields that validated when the construction fails
MetadataAccumulatorInvocationInvokePartial(s) ==
    LET r == CoreMetadataInit(SelfDict(s))
        k == SelfDict(s)
    IN  IF r.ok
        THEN [output |-> <<[metadata |-> r.value]>>, error |-> {}]
        ELSE [output |-> <<[metadata |->
                              [f \in CoreFields \ r.errors |->
                                  CoreMetadataField(k, f).value]]>>,
              error |-> r.errors]

\* MetadataAccumulatorInvocation.invoke:
\*   return MetadataAccumulatorOutput(metadata=CoreMetadata(**self.dict()))
\* The ValidationError of CoreMetadata(...) is not caught: nothing is returned.
MetadataAccumulatorInvocationInvoke(s) ==
    LET r == CoreMetadataInit(SelfDict(s))
    IN  IF r.ok
        THEN [output |-> <<[metadata |-> r.value]>>, error |-> {}]
        ELSE [output |-> <<>>, error |-> r.errors]

---------------------------------------------------------------------------
(* The free-form pipeline: item nodes, Metadata nodes, the merge node *)

\* what a Metadata node can be given: the collected list, or one of its items
MetadataInputs ==
    {ManyItems(items)} \cup {OneItem(items[i]) : i \in 1..Len(items)}

CoreIdle ==
    /\ self = EmptyDict
    /\ output = <<>>
    /\ error = {}
    /\ document = EmptyDict
    /\ reread = [ok |-> FALSE, value |-> EmptyDict, errors |-> {}]
    /\ cpc = "idle"

\* The merge node is fed either by this graph's own Metadata nodes (the
\* collection starts empty) or with MetadataDicts other nodes supplied.
InitExt ==
    /\ items = <<>>
    /\ self_items = NoItems
    /\ metadata_dict = MetadataDict(EmptyDict)
    /\ collection \in AllCollections
    /\ merge_out = MetadataDict(EmptyDict)
    /\ pc = "items"

Init == InitExt /\ CoreIdle

\* MetadataItemInvocation.invoke, its item gathered by a Collect node
MetadataItemInvoke(label, value) ==
    /\ pc = "items"
    /\ collection = <<>>
    /\ Len(items) < MaxItems
    /\ items' = Append(items, MetadataItem(label, value))
    /\ UNCHANGED <<self_items, metadata_dict, collection, merge_out, pc>>
    /\ UNCHANGED coreVars

\* MetadataInvocation.invoke
MetadataInvoke(its) ==
    /\ pc \in {"items", "dict"}
    /\ self_items' = its
    /\ metadata_dict' = MetadataInvocationInvoke(its)
    /\ pc' = "dict"
    /\ UNCHANGED <<items, collection, merge_out>>
    /\ UNCHANGED coreVars

\* The k-th item's own Metadata node feeds the k-th entry of the collection.
CollectMetadataDict ==
    /\ pc = "dict"
    /\ Len(collection) < Len(items)
    /\ self_items = OneItem(items[Len(collection) + 1])
    /\ collection' = Append(collection, metadata_dict)
    /\ UNCHANGED <<items, self_items, metadata_dict, merge_out, pc>>
    /\ UNCHANGED coreVars

\* MergeMetadataDictInvocation.invoke
MergeMetadataDictInvoke ==
    /\ pc \in {"items", "dict"}
    /\ merge_out' = MergeMetadataDictInvocationInvoke(collection)
    /\ pc' = "merged"
    /\ UNCHANGED <<items, self_items, metadata_dict, collection>>
    /\ UNCHANGED coreVars

Next ==
    \/ \E label \in Labels, value \in AnyValues : MetadataItemInvoke(label, value)
    \/ \E its \in MetadataInputs : MetadataInvoke(its)
    \/ CollectMetadataDict
    \/ MergeMetadataDictInvoke

Spec == Init /\ [][Next]_vars

---------------------------------------------------------------------------
(* The whole-record pipeline: assemble, serialize, read back *)

\* a value of the annotated type of field f
WellTyped(f) ==
    CASE CoreMetadataType(f) = "str" -> StrV("txt2img")
      [] CoreMetadataType(f) = "int" -> IntV(30)
      [] CoreMetadataType(f) = "float" -> FloatV(75)
      [] CoreMetadataType(f) = "MainModelField" -> MainModelField("main")
      [] CoreMetadataType(f) = "VAEModelField" -> VAEModelField("vae")
      [] CoreMetadataType(f) = "list[ControlField]" -> ListV(<<ControlField("canny")>>)
      [] CoreMetadataType(f) = "list[LoRAMetadataField]" -> ListV(<<>>)

\* a value that the annotated type of field f does not admit: None for the
\* required steps, a non-numeric string for a number or a list
IllTyped(f) == IF f = "steps" THEN None ELSE StrV("abc")

\* the sets of fields that hold an ill-typed value in one assembly
IllTypedSets ==
    {{}, {"seed"}, {"steps"}, {"refiner_steps"}, {"loras"},
     {"seed", "refiner_steps"}}

\* the (seed, loras) pairs of a well-typed assembly
SeedAndLoras ==
    {<<IntV(42), ListV(<<>>)>>,
     <<IntV(0), ListV(<<LoRAMetadataField(LoRAModelField("detail"), FloatV(8))>>)>>}

\* the fields of one MetadataAccumulatorInvocation: every required field, the
\* optional fields of S (the others None), the fields of B ill-typed.  InitCore
\* draws every set S of optional fields for the well-typed assemblies and every
\* set of refiner fields for the ill-typed ones.
AccumulatorSelf(S, B, sl) ==
    [f \in AccumulatorFields \cup BaseInvocationFields |->
        IF f \in BaseInvocationFields THEN BaseInvocationValue(f)
        ELSE IF f \in B THEN IllTyped(f)
        ELSE IF f = "seed" THEN sl[1]
        ELSE IF f = "loras" THEN sl[2]
        ELSE IF f \in AccumulatorRequired \/ f \in S THEN WellTyped(f)
        ELSE None]

ExtIdle ==
    /\ items = <<>>
    /\ self_items = NoItems
    /\ metadata_dict = MetadataDict(EmptyDict)
    /\ collection = <<>>
    /\ merge_out = MetadataDict(EmptyDict)
    /\ pc = "idle"

InitCore ==
    /\ ExtIdle
    /\ \/ \E S \in SUBSET AccumulatorOptional, sl \in SeedAndLoras :
              self = AccumulatorSelf(S, {}, sl)
       \/ \E S \in SUBSET RefinerFields, B \in IllTypedSets, sl \in SeedAndLoras :
              self = AccumulatorSelf(S, B, sl)
    /\ output = <<>>
    /\ error = {}
    /\ document = EmptyDict
    /\ reread = [ok |-> FALSE, value |-> EmptyDict, errors |-> {}]
    /\ cpc = "ready"

\* MetadataAccumulatorInvocation.invoke
MetadataAccumulatorInvoke ==
    /\ cpc = "ready"
    /\ LET r == MetadataAccumulatorInvocationInvoke(self)
       IN  /\ output' = r.output
           /\ error' = r.error
           /\ cpc' = IF r.error = {} THEN "output" ELSE "failed"
    /\ UNCHANGED <<self, document, reread>>
    /\ UNCHANGED extVars

\* the emitted record's dict(): the transport document
CoreMetadataDict ==
    /\ cpc = "output"
    /\ document' = ExcludeNullDict(output[1].metadata)
    /\ cpc' = "serialized"
    /\ UNCHANGED <<self, output, error, reread>>
    /\ UNCHANGED extVars

\* CoreMetadata(**document): a record read back from the document's keys
CoreMetadataReread ==
    /\ cpc = "serialized"
    /\ reread' = CoreMetadataInit(document)
    /\ cpc' = "reread"
    /\ UNCHANGED <<self, output, error, document>>
    /\ UNCHANGED extVars

NextCore ==
    \/ MetadataAccumulatorInvoke
    \/ CoreMetadataDict
    \/ CoreMetadataReread

SpecCore == InitCore /\ [][NextCore]_vars

---------------------------------------------------------------------------
(* Properties of the free-form pipeline (checked under Spec) *)

\* the labels of a sequence of items, the keys of a sequence of MetadataDicts
LabelsOf(seq) == {seq[i].label : i \in 1..Len(seq)}
KeysOf(coll) == UNION {DOMAIN coll[i].data : i \in 1..Len(coll)}

\* the position of the last item with label k, of the last map holding key k
LastItemWith(seq, k) ==
    CHOOSE i \in 1..Len(seq) :
        /\ seq[i].label = k
        /\ \A j \in (i + 1)..Len(seq) : seq[j].label # k
LastMapWith(coll, k) ==
    CHOOSE i \in 1..Len(coll) :
        /\ k \in DOMAIN coll[i].data
        /\ \A j \in (i + 1)..Len(coll) : k \notin DOMAIN coll[j].data

\* C1: the merged map's keys are the union of the input maps' keys, each key
\* carries the value of the last map of the collection that holds it; an empty
\* collection merges to the empty map and a one-map collection to that map.
C1_MergeLastMapWins ==
    pc = "merged" =>
        /\ DOMAIN merge_out.data = KeysOf(collection)
        /\ \A k \in KeysOf(collection) :
               merge_out.data[k] = collection[LastMapWith(collection, k)].data[k]
        /\ (collection = <<>> => merge_out = MetadataDict(EmptyDict))
        /\ (Len(collection) = 1 => merge_out = collection[1])

C1_Witness ==
    /\ pc = "merged"
    /\ Len(collection) >= 2
    /\ \E k \in Labels :
           /\ k \in DOMAIN collection[1].data
           /\ k \in DOMAIN collection[2].data
           /\ collection[1].data[k] # collection[2].data[k]
    /\ \E k \in DOMAIN collection[1].data : k \notin DOMAIN collection[2].data

\* C2: the map built from a list of items has exactly the labels of the list
\* as keys (each once: it is a function of the label), and each label carries
\* the value of the last item of the list with that label.
C2_ItemsLastLabelWins ==
    (pc # "items" /\ self_items.kind = "list") =>
        /\ DOMAIN metadata_dict.data = LabelsOf(self_items.val)
        /\ \A k \in LabelsOf(self_items.val) :
               metadata_dict.data[k] =
                   self_items.val[LastItemWith(self_items.val, k)].value

C2_Witness ==
    /\ pc = "dict"
    /\ self_items.kind = "list"
    /\ \E i, j \in 1..Len(self_items.val) :
           /\ i < j
           /\ self_items.val[i].label = self_items.val[j].label
           /\ self_items.val[i].value # self_items.val[j].value

\* the maps of the items of seq, each item folded on its own
SingletonMaps(seq) ==
    [i \in 1..Len(seq) |-> MetadataDict(seq[i].label :> seq[i].value)]

\* C6: folding a list of items directly and merging, in the same order, the
\* maps of its single items give the same map.
C6_ItemFoldEqualsMapMerge ==
    (pc = "merged" /\ self_items = ManyItems(items)
                   /\ collection = SingletonMaps(items)) =>
        merge_out = metadata_dict

C6_Witness ==
    /\ pc = "merged"
    /\ self_items = ManyItems(items)
    /\ collection = SingletonMaps(items)
    /\ Len(items) >= 2
    /\ items[1].label = items[2].label
    /\ items[1].value # items[2].value

\* C7: a single item (the isinstance branch) and the one-element list holding
\* it (the list branch) both give the map with the one entry label -> value.
C7_SingleItemAsOneElementList ==
    pc # "items" =>
        /\ self_items.kind = "MetadataItem" =>
               metadata_dict =
                   MetadataDict(self_items.item.label :> self_items.item.value)
        /\ (self_items.kind = "list" /\ Len(self_items.val) = 1) =>
               metadata_dict =
                   MetadataDict(self_items.val[1].label :> self_items.val[1].value)

C7_Witness ==
    /\ pc = "dict"
    /\ self_items.kind = "MetadataItem"
    /\ items = <<self_items.item>>

\* C10 as stated: whenever a later map holds None for a label that an earlier
\* map holds with another value, the merged map holds None for that label.
C10_AnyLaterNoneWins ==
    pc = "merged" =>
        \A i, j \in 1..Len(collection) :
            \A k \in (DOMAIN collection[i].data) \cap (DOMAIN collection[j].data) :
                (i < j /\ collection[i].data[k] # None
                       /\ collection[j].data[k] = None)
                    => merge_out.data[k] = None

\* C10, amended: None is an ordinary value.  An item whose value is None puts
\* its label in the map built from the items, and the map holds None when the
\* last item with that label does; every key that some map of the collection
\* holds with None is a key of the merged map, and the merged map holds None
\* for a label when the last map of the collection with that label does,
\* whatever earlier maps hold.
C10_NoneIsAnOrdinaryValue ==
    /\ (pc # "items" /\ self_items.kind = "MetadataItem"
                     /\ self_items.item.value = None) =>
           /\ self_items.item.label \in DOMAIN metadata_dict.data
           /\ metadata_dict.data[self_items.item.label] = None
    /\ (pc # "items" /\ self_items.kind = "list") =>
           \A i \in 1..Len(self_items.val) :
               self_items.val[i].value = None =>
                   /\ self_items.val[i].label \in DOMAIN metadata_dict.data
                   /\ (i = LastItemWith(self_items.val, self_items.val[i].label)
                          => metadata_dict.data[self_items.val[i].label] = None)
    /\ pc = "merged" =>
           \A i \in 1..Len(collection) :
               \A k \in DOMAIN collection[i].data :
                   collection[i].data[k] = None =>
                       /\ k \in DOMAIN merge_out.data
                       /\ (i = LastMapWith(collection, k)
                              => merge_out.data[k] = None)

C10_Witness ==
    /\ pc = "merged"
    /\ Len(collection) >= 2
    /\ \E k \in (DOMAIN collection[1].data) \cap (DOMAIN collection[2].data) :
           /\ collection[1].data[k] # None
           /\ collection[2].data[k] = None
           /\ LastMapWith(collection, k) = 2
           /\ merge_out.data[k] = None

---------------------------------------------------------------------------
(* Properties of the whole-record pipeline (checked under SpecCore) *)

\* the optional fields the invocation was given a value for
Supplied == {f \in AccumulatorOptional : self[f] # None}

\* C3: an optional attribute that is unset (not given to the assembly, or None
\* in the record) has no key in the serialized document, while the required
\* keys, model, controlnets and loras among them, are all there; so a record
\* built with no refiner field serializes with no refiner_* key.
C3_UnsetOptionalIsAbsent ==
    cpc \in {"serialized", "reread"} =>
        /\ \A f \in CoreOptional :
               (f \notin Supplied \/ output[1].metadata[f] = None)
                   => f \notin DOMAIN document
        /\ CoreRequired \subseteq DOMAIN document
        /\ \A f \in DOMAIN document : document[f] # None

C3_Witness ==
    /\ cpc = "serialized"
    /\ self["generation_mode"] = StrV("txt2img")
    /\ self["seed"] = IntV(42)
    /\ Supplied \cap RefinerFields = {}
    /\ Supplied # {}
    /\ (DOMAIN document) \cap RefinerFields = {}
    /\ {"model", "controlnets", "loras"} \subseteq DOMAIN document

\* C4 as stated: the document's keys are exactly the required fields and the
\* optional fields that were supplied.
C4_KeysAreExactlyTheSupplied ==
    cpc \in {"serialized", "reread"} =>
        DOMAIN document = AccumulatorRequired \cup Supplied

\* C4, amended: the document's keys are exactly app_version (which the record
\* fills in from the application's version), the required fields and the
\* optional fields that were supplied with a value other than None.
C4_KeysAreVersionAndTheSupplied ==
    cpc \in {"serialized", "reread"} =>
        DOMAIN document = {"app_version"} \cup AccumulatorRequired \cup Supplied

C4_Witness ==
    /\ cpc = "serialized"
    /\ Supplied # {}
    /\ Supplied # AccumulatorOptional
    /\ "app_version" \in DOMAIN document

\* C5: every field given to the aggregator is the record's field of the same
\* name, whatever the other fields hold (no cross-field validation), and one
\* invoke emits exactly one record.
C5_FieldByFieldAssignment ==
    cpc = "output" =>
        /\ Len(output) = 1
        /\ DOMAIN output[1].metadata = CoreFields
        /\ \A f \in AccumulatorFields : output[1].metadata[f] = self[f]

C5_Witness ==
    /\ cpc = "output"
    /\ self["refiner_model"] = None
    /\ self["refiner_steps"] # None
    /\ self["loras"] # ListV(<<>>)
    /\ output[1].metadata["refiner_steps"] = self["refiner_steps"]

\* C8: the record read back from the keys of the document agrees with the
\* emitted record on every field, the absent ones still absent, and serializes
\* to the same document.
C8_RoundTrip ==
    cpc = "reread" =>
        /\ reread.ok
        /\ \A f \in CoreFields : reread.value[f] = output[1].metadata[f]
        /\ ExcludeNullDict(reread.value) = document

C8_Witness ==
    /\ cpc = "reread"
    /\ reread.ok
    /\ self["loras"] # ListV(<<>>)
    /\ Supplied # {}
    /\ "clip_skip" \notin Supplied

\* whether v is a value of the annotated type of field f of CoreMetadata
MatchesType(f, v) ==
    IF v = None THEN f \in CoreOptional
    ELSE IF CoreMetadataType(f) = "list[ControlField]"
         THEN v.kind = "list" /\ \A i \in 1..Len(v.val) : v.val[i].kind = "ControlField"
    ELSE IF CoreMetadataType(f) = "list[LoRAMetadataField]"
         THEN v.kind = "list" /\ \A i \in 1..Len(v.val) : v.val[i].kind = "LoRAMetadataField"
    ELSE v.kind = CoreMetadataType(f)

Offending == {f \in AccumulatorFields : ~MatchesType(f, self[f])}

====
